---- MODULE Spec2Model ----
(***************************************************************************)
(* A model of the validator combinators of servicemngr/args.py and of a    *)
(* client that builds one validator tree and calls validate() on it; of a  *)
(* client that builds several AllValidator and AnyValidator objects; and   *)
(* of the ServiceManager of servicemngr/servicemngr.py.                    *)
(*                                                                         *)
(* Python values are records [tp, a, items]: tp is the runtime type, a the *)
(* text of a scalar (ints are kept as their decimal text, so that no two   *)
(* values of different types are ever compared by TLC), items the elements *)
(* of a list or tuple, or the (key, value) 2-tuples of a dict in insertion *)
(* order.  An exception that leaves a call is the pseudo value Raised(e).  *)
(***************************************************************************)
EXTENDS Naturals, Sequences, FiniteSets, TLC

VARIABLES
    tree,     \* the validator object the client holds
    built,    \* history: the tree as the client built and configured it
    value,    \* the input of the latest validate() call
    result,   \* what that call returned, or the exception it raised
    out,      \* the lines that call printed
    calls,    \* the validate() calls entered during that call
    first,    \* history: input and result of the first call of all, and
              \* whether another input has been submitted since
    heap,     \* the list objects that validators refer to, by identity
    objs,     \* the AllValidator and AnyValidator objects of a client that
              \* builds several: class and the identity of self.validators
    owned,    \* history: per object, the list it was built with and the
              \* children the client appended through it since
    config,   \* the services of the configuration a ServiceManager is given
    services, \* self.services: per service its process, or None
    startExceptions,  \* self.startExceptions
    args,     \* self.args: per service the words of its command line
    pc,       \* where the client of the ServiceManager is
    lastPass  \* history: self.services and self.startExceptions when the
              \* latest checkService() began, and the services it tried to
              \* start

objects == <<heap, objs, owned>>

manager == <<config, services, startExceptions, args, pc, lastPass>>

vars ==
    <<tree, built, value, result, out, calls, first, heap, objs, owned,
      config, services, startExceptions, args, pc, lastPass>>

(***************************************************************************)
(* Python values                                                           *)
(***************************************************************************)
PyVal(tp, a, items) == [tp |-> tp, a |-> a, items |-> items]

None == PyVal("NoneType", "", <<>>)

PyInt(a) == PyVal("int", a, <<>>)

PyStr(a) == PyVal("str", a, <<>>)

PyList(items) == PyVal("list", "", items)

PyTuple(items) == PyVal("tuple", "", items)

PyDict(items) == PyVal("dict", "", items)

\* The generator object of a generator expression that nobody has iterated.
\* Every evaluation of the expression makes a new object, and a generator is
\* equal to itself alone: a is its identity, the place among the client's
\* calls where it was made.
Generator(at) == PyVal("generator", at, <<>>)

\* An exception propagating out of a call: "Exception" is the one raised at
\* args.py:170, the others are raised by the interpreter.
Raised(e) == PyVal("raise", e, <<>>)

IsRaised(r) == r.tp = "raise"

\* The characters of the strings the model uses (iterating a str yields
\* its one-character substrings).
Chars(a) ==
    CASE a = "" -> <<>>
      [] a = "ab" -> <<"a", "b">>
      [] a = "name" -> <<"n", "a", "m", "e">>
      [] a = "exec" -> <<"e", "x", "e", "c">>
      [] a = "args" -> <<"a", "r", "g", "s">>
      [] a = "dir" -> <<"d", "i", "r">>
      [] a = "svc1" -> <<"s", "v", "c", "1">>
      [] a = "run.sh" -> <<"r", "u", "n", ".", "s", "h">>
      [] a = "-x" -> <<"-", "x">>
      [] a = "./" -> <<".", "/">>
      [] a = "bogus" -> <<"b", "o", "g", "u", "s">>
      [] a = "extra" -> <<"e", "x", "t", "r", "a">>
      [] OTHER -> <<a>>

\* isinstance(value, collections.abc.Iterable)
Iterable(v) == v.tp \in {"list", "tuple", "str", "dict", "generator"}

\* The elements a for loop over v visits: the items of a list or tuple, the
\* keys of a dict, the characters of a str.
Iter(v) ==
    CASE v.tp = "str" -> [i \in 1..Len(Chars(v.a)) |-> PyStr(Chars(v.a)[i])]
      [] v.tp = "dict" -> [i \in 1..Len(v.items) |-> v.items[i].items[1]]
      [] OTHER -> v.items

\* value == other.  Lists and tuples compare elementwise, dicts as sets of
\* pairs whatever the insertion order, values of different types are unequal
\* (the model has no bool or float, the only types equal to an int).
RECURSIVE PyEq(_, _)
PyEq(x, y) ==
    /\ x.tp = y.tp
    /\ x.a = y.a
    /\ Len(x.items) = Len(y.items)
    /\ IF x.tp = "dict"
       THEN \A i \in 1..Len(x.items) : \E j \in 1..Len(y.items) :
                /\ PyEq(x.items[i].items[1], y.items[j].items[1])
                /\ PyEq(x.items[i].items[2], y.items[j].items[2])
       ELSE \A i \in 1..Len(x.items) : PyEq(x.items[i], y.items[i])

\* hash(value) succeeds: lists and dicts are unhashable, a tuple is hashable
\* when its items are.
RECURSIVE Hashable(_)
Hashable(v) ==
    CASE v.tp \in {"list", "dict"} -> FALSE
      [] v.tp = "tuple" -> \A i \in 1..Len(v.items) : Hashable(v.items[i])
      [] OTHER -> TRUE

\* d[k] = v on the pairs of a dict: an existing key keeps its place.
DictPut(items, k, v) ==
    IF \E i \in 1..Len(items) : PyEq(items[i].items[1], k)
    THEN [i \in 1..Len(items) |->
            IF PyEq(items[i].items[1], k) THEN PyTuple(<<k, v>>) ELSE items[i]]
    ELSE Append(items, PyTuple(<<k, v>>))

(***************************************************************************)
(* Validator objects: every class is a record of the same shape, k naming  *)
(* the class.  validators holds the child validators (the one wrapped      *)
(* validator of Replace and List; key, value and tuple validator of Dict). *)
(***************************************************************************)
Validator(k) ==
    [k |-> k, info |-> TRUE, validators |-> <<>>, value |-> None,
     replacement |-> None, tp |-> "", shortCircuit |-> FALSE,
     allowEmpty |-> FALSE, removeIfNone |-> FALSE, matchLength |-> FALSE]

PassValidator == Validator("PassValidator")

ReplaceValidator(validator, replacement) ==
    [Validator("ReplaceValidator") EXCEPT
        !.validators = <<validator>>, !.replacement = replacement]

AllValidator(validators, shortCircuit, allowEmpty) ==
    [Validator("AllValidator") EXCEPT
        !.validators = validators, !.shortCircuit = shortCircuit,
        !.allowEmpty = allowEmpty]

AnyValidator(validators, shortCircuit, allowEmtpy) ==
    [Validator("AnyValidator") EXCEPT
        !.validators = validators, !.shortCircuit = shortCircuit,
        !.allowEmpty = allowEmtpy]

TypeValidator(tp) == [Validator("TypeValidator") EXCEPT !.tp = tp]

ListValidator(validator, removeIfNone) ==
    [Validator("ListValidator") EXCEPT
        !.validators = <<validator>>, !.removeIfNone = removeIfNone]

TupleValidator(validators, allowEmpty, shortCircuit, matchLength) ==
    [Validator("TupleValidator") EXCEPT
        !.validators = validators, !.allowEmpty = allowEmpty,
        !.shortCircuit = shortCircuit, !.matchLength = matchLength]

ValueValidator(v) == [Validator("ValueValidator") EXCEPT !.value = v]

DictValidator(keyValidator, valueValidator, tupleValidator, removeIfNone) ==
    [Validator("DictValidator") EXCEPT
        !.validators = <<keyValidator, valueValidator, tupleValidator>>,
        !.removeIfNone = removeIfNone]

(***************************************************************************)
(* validate.  A call returns [res, out, calls]: res is the value returned  *)
(* or Raised(e); out the lines printed during the call, in order; calls    *)
(* the validate() calls entered during it, in order.                       *)
(***************************************************************************)
Ret(res, o, c) == [res |-> res, out |-> o, calls |-> c]

\* One printed line: its indentation (a number of spaces), the outcome, the
\* input and the validator's name.
Line(ind, res, v, name) == [indent |-> ind, res |-> res, value |-> v, name |-> name]

Call(level, v, name) == [level |-> level, value |-> v, name |-> name]

\* Where a call is made: the number of the client's call, then the position
\* of each nested call in its caller, as text.
RECURSIVE Text(_)
Text(n) ==
    IF n < 10
    THEN <<"0", "1", "2", "3", "4", "5", "6", "7", "8", "9">>[n + 1]
    ELSE Text(n \div 10) \o Text(n % 10)

Root(n) == Text(n) \o "."

Child(at, i) == at \o Text(i) \o "."

RECURSIVE validate(_, _, _, _)

PassValidator_validate(self, v, level, at) == Ret(v, <<>>, <<>>)

ReplaceValidator_validate(self, v, level, at) ==
    LET r == validate(self.validators[1], v, level, Child(at, 1))
    IN  IF IsRaised(r.res) THEN r
        ELSE Ret(IF r.res # None THEN r.res ELSE self.replacement, r.out, r.calls)

TypeValidator_validate(self, v, level, at) ==
    Ret(IF v.tp = self.tp THEN v ELSE None, <<>>, <<>>)

ValueValidator_validate(self, v, level, at) ==
    Ret(IF PyEq(v, self.value) THEN v ELSE None, <<>>, <<>>)

\* The loop of AllValidator._validate from its i-th validator on.  Python's
\* `and` calls validate only while checkResult is still true.
RECURSIVE AllLoop(_, _, _, _, _, _, _, _)
AllLoop(self, v, level, i, checkResult, o, c, at) ==
    IF i > Len(self.validators)
    THEN Ret(IF checkResult THEN v ELSE None, o, c)
    ELSE IF ~checkResult
         THEN IF self.shortCircuit
              THEN Ret(None, o, c)
              ELSE AllLoop(self, v, level, i + 1, FALSE, o, c, at)
         ELSE LET r == validate(self.validators[i], v, level, Child(at, i))
              IN  IF IsRaised(r.res)
                  THEN Ret(r.res, o \o r.out, c \o r.calls)
                  ELSE IF self.shortCircuit /\ r.res = None
                       THEN Ret(None, o \o r.out, c \o r.calls)
                       ELSE AllLoop(self, v, level, i + 1, r.res # None,
                                    o \o r.out, c \o r.calls, at)

AllValidator_validate(self, v, level, at) ==
    IF self.validators = <<>>
    THEN Ret(IF self.allowEmpty THEN v ELSE None, <<>>, <<>>)
    ELSE AllLoop(self, v, level, 1, TRUE, <<>>, <<>>, at)

\* AnyLoop without the check for a second match: the last match wins.
RECURSIVE AnyLoopLastWins(_, _, _, _, _, _, _, _)
AnyLoopLastWins(self, v, level, i, res, o, c, at) ==
    IF i > Len(self.validators)
    THEN Ret(Raised("NameError"), o, c)
    ELSE LET r == validate(self.validators[i], v, level, Child(at, i))
             oo == o \o r.out
             cc == c \o r.calls
         IN  IF IsRaised(r.res) THEN Ret(r.res, oo, cc)
             ELSE LET res2 == IF r.res # None THEN r.res ELSE res
                  IN  IF self.shortCircuit /\ res2 = None
                      THEN Ret(Raised("NameError"), oo, cc)
                      ELSE AnyLoopLastWins(self, v, level, i + 1, res2, oo, cc, at)

\* The loop of AnyValidator._validate from its i-th validator on; res is the
\* local `result`.  The return statement after the loop reads checkResult,
\* a name the function never binds: NameError.
RECURSIVE AnyLoop(_, _, _, _, _, _, _, _)
AnyLoop(self, v, level, i, res, o, c, at) ==
    IF i > Len(self.validators)
    THEN Ret(Raised("NameError"), o, c)
    ELSE LET r == validate(self.validators[i], v, level, Child(at, i))
             oo == o \o r.out
             cc == c \o r.calls
         IN  IF IsRaised(r.res) THEN Ret(r.res, oo, cc)
             ELSE IF r.res # None /\ res # None
                  THEN Ret(Raised("Exception"), oo, cc)
                  ELSE LET res2 == IF r.res # None THEN r.res ELSE res
                       IN  IF self.shortCircuit /\ res2 = None
                           THEN Ret(Raised("NameError"), oo, cc)
                           ELSE AnyLoop(self, v, level, i + 1, res2, oo, cc, at)

AnyValidator_validate(self, v, level, at) ==
    IF self.validators = <<>>
    THEN Ret(IF self.allowEmpty THEN v ELSE None, <<>>, <<>>)
    ELSE AnyLoop(self, v, level, 1, None, <<>>, <<>>, at)

\* ListLoop without the filter: the None of a failed element stays in.
RECURSIVE ListLoopKeepAll(_, _, _, _, _, _, _, _)
ListLoopKeepAll(self, elems, level, i, kept, o, c, at) ==
    IF i > Len(elems)
    THEN Ret(PyList(kept), o, c)
    ELSE LET r == validate(self.validators[1], elems[i], level, Child(at, i))
         IN  IF IsRaised(r.res)
             THEN Ret(r.res, o \o r.out, c \o r.calls)
             ELSE ListLoopKeepAll(self, elems, level, i + 1, Append(kept, r.res),
                                  o \o r.out, c \o r.calls, at)

\* The list comprehension of ListValidator._validate over elems from the i-th
\* element on: it pulls one element at a time through the generator.
RECURSIVE ListLoop(_, _, _, _, _, _, _, _)
ListLoop(self, elems, level, i, kept, o, c, at) ==
    IF i > Len(elems)
    THEN Ret(PyList(kept), o, c)
    ELSE LET r == validate(self.validators[1], elems[i], level, Child(at, i))
         IN  IF IsRaised(r.res)
             THEN Ret(r.res, o \o r.out, c \o r.calls)
             ELSE ListLoop(self, elems, level, i + 1,
                           IF r.res # None THEN Append(kept, r.res) ELSE kept,
                           o \o r.out, c \o r.calls, at)

\* Without removeIfNone the function returns [newValues]: a list of one
\* element, the generator itself, which nothing has iterated.
ListValidator_validate(self, v, level, at) ==
    IF ~Iterable(v) THEN Ret(None, <<>>, <<>>)
    ELSE IF self.removeIfNone
         THEN ListLoop(self, Iter(v), level, 1, <<>>, <<>>, <<>>, at)
         ELSE Ret(PyList(<<Generator(at)>>), <<>>, <<>>)

Min(a, b) == IF a < b THEN a ELSE b

\* tuple(validator.validate(v, level) for validator, v in zip(...))
RECURSIVE TupleLoop(_, _, _, _, _, _, _, _)
TupleLoop(self, v, level, i, res, o, c, at) ==
    IF i > Min(Len(self.validators), Len(v.items))
    THEN Ret(PyTuple(res), o, c)
    ELSE LET r == validate(self.validators[i], v.items[i], level, Child(at, i))
         IN  IF IsRaised(r.res)
             THEN Ret(r.res, o \o r.out, c \o r.calls)
             ELSE TupleLoop(self, v, level, i + 1, Append(res, r.res),
                            o \o r.out, c \o r.calls, at)

\* TupleValidator._validate without the arity check.
TupleValidator_validateAnyArity(self, v, level, at) ==
    IF v.tp # "tuple" THEN Ret(None, <<>>, <<>>)
    ELSE IF self.validators = <<>>
         THEN Ret(IF self.allowEmpty THEN v ELSE None, <<>>, <<>>)
         ELSE TupleLoop(self, v, level, 1, <<>>, <<>>, <<>>, at)

TupleValidator_validate(self, v, level, at) ==
    IF v.tp # "tuple" THEN Ret(None, <<>>, <<>>)
    ELSE IF self.validators = <<>>
         THEN Ret(IF self.allowEmpty THEN v ELSE None, <<>>, <<>>)
         ELSE IF self.matchLength /\ Len(v.items) # Len(self.validators)
              THEN Ret(None, <<>>, <<>>)
              ELSE TupleLoop(self, v, level, 1, <<>>, <<>>, <<>>, at)

\* The dict comprehension of DictValidator._validate from the i-th item on:
\* per item it validates the key, the value, the pair, filters, unpacks the
\* outcome into k, v and stores it.
RECURSIVE DictLoop(_, _, _, _, _, _, _, _)
DictLoop(self, v, level, i, items, o, c, at) ==
    IF i > Len(v.items)
    THEN Ret(PyDict(items), o, c)
    ELSE LET rk == validate(self.validators[1], v.items[i].items[1], level,
                           Child(Child(at, i), 1))
         IN  IF IsRaised(rk.res) THEN Ret(rk.res, o \o rk.out, c \o rk.calls)
             ELSE
         LET rv == validate(self.validators[2], v.items[i].items[2], level,
                           Child(Child(at, i), 2))
             o2 == o \o rk.out \o rv.out
             c2 == c \o rk.calls \o rv.calls
         IN  IF IsRaised(rv.res) THEN Ret(rv.res, o2, c2)
             ELSE
         LET rt == validate(self.validators[3], PyTuple(<<rk.res, rv.res>>), level,
                           Child(Child(at, i), 3))
             o3 == o2 \o rt.out
             c3 == c2 \o rt.calls
             t == rt.res
         IN  IF IsRaised(t) THEN Ret(t, o3, c3)
             ELSE IF self.removeIfNone /\ t = None
                  THEN DictLoop(self, v, level, i + 1, items, o3, c3, at)
             ELSE IF ~Iterable(t) THEN Ret(Raised("TypeError"), o3, c3)
             ELSE IF Len(Iter(t)) # 2 THEN Ret(Raised("ValueError"), o3, c3)
             ELSE IF ~Hashable(Iter(t)[1]) THEN Ret(Raised("TypeError"), o3, c3)
             ELSE DictLoop(self, v, level, i + 1,
                           DictPut(items, Iter(t)[1], Iter(t)[2]), o3, c3, at)

DictValidator_validate(self, v, level, at) ==
    IF v.tp # "dict" THEN Ret(None, <<>>, <<>>)
    ELSE DictLoop(self, v, level, 1, <<>>, <<>>, <<>>, at)

\* self._validate(value, level): the method of self's class.
Dispatch(self, v, level, at) ==
    CASE self.k = "PassValidator" -> PassValidator_validate(self, v, level, at)
      [] self.k = "ReplaceValidator" -> ReplaceValidator_validate(self, v, level, at)
      [] self.k = "AllValidator" -> AllValidator_validate(self, v, level, at)
      [] self.k = "AnyValidator" -> AnyValidator_validate(self, v, level, at)
      [] self.k = "TypeValidator" -> TypeValidator_validate(self, v, level, at)
      [] self.k = "ListValidator" -> ListValidator_validate(self, v, level, at)
      [] self.k = "TupleValidator" -> TupleValidator_validate(self, v, level, at)
      [] self.k = "ValueValidator" -> ValueValidator_validate(self, v, level, at)
      [] self.k = "DictValidator" -> DictValidator_validate(self, v, level, at)

\* An indentation of one space per level.
indentSingle(level) == level

indent(level) == 2 * level

\* AbstractValidator.validate: the line is printed after _validate returned,
\* so not at all when it raised.
validate(self, v, level, at) ==
    LET r == Dispatch(self, v, level + 1, at)
        c == <<Call(level, v, self.k)>> \o r.calls
    IN  IF IsRaised(r.res) THEN Ret(r.res, r.out, c)
        ELSE Ret(r.res,
                 IF self.info
                 THEN Append(r.out, Line(indent(level), r.res, v, self.k))
                 ELSE r.out,
                 c)

(***************************************************************************)
(* The client: the trees it may build and the inputs it may submit         *)
(***************************************************************************)
MaxLen == 2

MaxValidators == 2

SeqsUpTo(S, n) == UNION {[1..k -> S] : k \in 0..n}

Atoms == {None, PyInt("1"), PyStr("x")}

ExampleList == PyList(<<PyInt("1"), PyStr("x"), PyInt("3")>>)

ExampleConfig ==
    PyDict(<<PyTuple(<<PyStr("name"), PyStr("svc1")>>),
             PyTuple(<<PyStr("exec"), PyStr("run.sh")>>),
             PyTuple(<<PyStr("args"), PyList(<<PyStr("-x")>>)>>),
             PyTuple(<<PyStr("dir"), PyStr("./")>>),
             PyTuple(<<PyStr("bogus"), PyInt("1")>>)>>)

Examples ==
    {ExampleList, ExampleConfig, PyDict(<<>>),
     PyDict(<<PyTuple(<<PyStr("x"), PyInt("1")>>)>>),
     PyInt("0"), PyStr(""),
     PyList(<<None, PyInt("1")>>), PyTuple(<<None, PyStr("x")>>),
     PyTuple(<<PyStr("name"), PyStr("svc1")>>),
     PyTuple(<<PyStr("name"), PyStr("svc1"), PyStr("extra")>>)}

\* The elements of the lists and tuples enumerated up to MaxLen.
Elems == {PyInt("1"), PyStr("x")}

Inputs ==
    Atoms \cup Examples
          \cup {PyList(s) : s \in SeqsUpTo(Elems, MaxLen)}
          \cup {PyTuple(s) : s \in SeqsUpTo(Elems, MaxLen)}

\* The inputs the client submits more than once.
RepeatInputs ==
    Atoms \cup {ExampleList, ExampleConfig, PyList(<<>>), PyDict(<<>>),
                PyTuple(<<PyInt("1"), PyStr("x")>>),
                PyTuple(<<PyStr("name"), PyStr("svc1")>>)}

\* The name/exec/args/dir schema: TupleValidator and ListValidator take
\* their default flags.
Field(name, validator) ==
    TupleValidator(<<ValueValidator(PyStr(name)), validator>>, TRUE, TRUE, TRUE)

Schema ==
    DictValidator(PassValidator, PassValidator,
        AnyValidator(<<Field("name", TypeValidator("str")),
                       Field("exec", TypeValidator("str")),
                       Field("args", ListValidator(TypeValidator("str"), TRUE)),
                       Field("dir", TypeValidator("str"))>>, FALSE, FALSE),
        TRUE)

\* Child validators: one that passes everything, one that selects, one that
\* transforms, and an AnyValidator with a child.
Children ==
    {PassValidator, TypeValidator("int"),
     ReplaceValidator(TypeValidator("str"), PyInt("1")),
     AnyValidator(<<TypeValidator("int")>>, FALSE, FALSE)}

\* The wrapped validators of the one-child classes.
Wrapped ==
    Children \cup {TypeValidator("str"), ValueValidator(PyStr("x")),
                   AnyValidator(<<>>, FALSE, TRUE),
                   ListValidator(TypeValidator("int"), TRUE),
                   ListValidator(TypeValidator("int"), FALSE)}

ChildLists == SeqsUpTo(Children, MaxValidators)

\* Three children of which the input 1 matches the first and the last, the
\* input "x" the last two, and any other input the last alone.
ThreeChildren ==
    <<TypeValidator("int"), ValueValidator(PyStr("x")), PassValidator>>

Trees ==
    Wrapped \cup {Schema, Field("name", TypeValidator("str"))}
      \cup {AnyValidator(ThreeChildren, sc, FALSE) : sc \in BOOLEAN}
      \cup {AllValidator(ThreeChildren, sc, FALSE) : sc \in BOOLEAN}
      \cup {ReplaceValidator(c, d) : c \in Wrapped, d \in {None, PyInt("3")}}
      \cup {AllValidator(cs, sc, ae) :
                cs \in ChildLists, sc \in BOOLEAN, ae \in BOOLEAN}
      \cup {AnyValidator(cs, sc, FALSE) : cs \in ChildLists, sc \in BOOLEAN}
      \cup {AnyValidator(<<>>, sc, TRUE) : sc \in BOOLEAN}
      \cup {ListValidator(c, rm) : c \in Wrapped, rm \in BOOLEAN}
      \cup {TupleValidator(cs, FALSE, TRUE, ml) : cs \in ChildLists, ml \in BOOLEAN}
      \cup {TupleValidator(<<>>, TRUE, TRUE, ml) : ml \in BOOLEAN}
      \cup {DictValidator(k, PassValidator, t, rm) :
                k \in {PassValidator, TypeValidator("int")},
                t \in {PassValidator, TypeValidator("int")}, rm \in BOOLEAN}

\* No call made yet.
Unset == PyVal("unset", "", <<>>)

\* The two list objects that exist once the module is loaded: the default
\* value of the parameter validators of AllValidator.__init__ and that of
\* AnyValidator.__init__, each evaluated once, when its def is executed.
DefaultLists == << <<>>, <<>> >>

DefaultOf(k) == IF k = "AllValidator" THEN 1 ELSE 2

\* No validator objects built by the client.
NoObjects ==
    /\ heap = DefaultLists
    /\ objs = <<>>
    /\ owned = <<>>

\* No ServiceManager.
NoManager ==
    /\ config = <<>>
    /\ services = <<>>
    /\ startExceptions = <<>>
    /\ args = <<>>
    /\ pc = "none"
    /\ lastPass = <<>>

Init ==
    /\ tree \in Trees
    /\ built = tree
    /\ value = Unset
    /\ result = Unset
    /\ out = <<>>
    /\ calls = <<>>
    /\ first = <<Unset, Unset, FALSE>>
    /\ NoObjects
    /\ NoManager

\* The identities of the generator objects in a value.
RECURSIVE Generators(_)
Generators(v) ==
    IF v.tp = "generator" THEN {v.a}
    ELSE UNION {Generators(v.items[i]) : i \in 1..Len(v.items)}

\* The objects the client holds: what its latest call returned and what its
\* first call returned.
Held == Generators(result) \cup Generators(first[2])

\* The client holds the results of two calls at most, so of three numbers
\* one is the number of a call none of whose objects it holds.
CallNumbers == 0..2

\* An object that a call makes is a new one: it is none of the objects the
\* client holds.  The call takes the least number that makes it so.
IsNew(self, v, n) == Generators(validate(self, v, 0, Root(n)).res) \cap Held = {}

NewCall(self, v) ==
    CHOOSE n \in CallNumbers :
        IsNew(self, v, n) /\ \A m \in 0..(n - 1) : ~IsNew(self, v, m)

\* result = tree.validate(v): the call reads the tree and assigns to none of
\* its attributes.
DoValidate(v) ==
    LET r == validate(tree, v, 0, Root(NewCall(tree, v)))
    IN  /\ value' = v
        /\ result' = r.res
        /\ out' = r.out
        /\ calls' = r.calls
        /\ tree' = tree
        /\ built' = built

Evaluate(v) == DoValidate(v) /\ UNCHANGED <<first, objects, manager>>

\* The same call in a client that remembers its first call.
EvaluateAgain(v) ==
    /\ DoValidate(v)
    /\ first' = IF first[1] = Unset THEN <<value', result', FALSE>>
                ELSE <<first[1], first[2], first[3] \/ v # first[1]>>
    /\ UNCHANGED <<objects, manager>>

\* tree.setInfo(b)
SetInfo(b) ==
    /\ tree' = [tree EXCEPT !.info = b]
    /\ built' = tree'
    /\ UNCHANGED <<value, result, out, calls, first, objects, manager>>

Next == \E v \in Inputs : Evaluate(v)

\* A client that validates one input after the other.
Spec == Init /\ [][Next]_vars

NextRepeat ==
    \/ \E v \in RepeatInputs : EvaluateAgain(v)
    \/ \E b \in BOOLEAN : SetInfo(b)

\* A client that also switches the root's trace line on and off, and that
\* remembers what its first call returned.
SpecRepeat == Init /\ [][NextRepeat]_vars

(***************************************************************************)
(* A client that builds several AllValidator and AnyValidator objects,     *)
(* with and without a list of its own, appends to their validators lists   *)
(* and validates with them.  An object holds a reference to its list:      *)
(* self.validators = validators (args.py:113, 157).                        *)
(***************************************************************************)
MaxObjects == 2

\* What the client appends, and what it validates.
Appended == {PassValidator, TypeValidator("int")}

ObjectInputs == {PyInt("1"), PyStr("x")}

\* The validator that objs[i] is now: its class with the list it refers to
\* and the default flags.
Object(i) ==
    IF objs[i].k = "AllValidator"
    THEN AllValidator(heap[objs[i].validators], FALSE, FALSE)
    ELSE AnyValidator(heap[objs[i].validators], FALSE, FALSE)

InitObjects ==
    /\ NoObjects
    /\ NoManager
    /\ tree = PassValidator
    /\ built = tree
    /\ value = Unset
    /\ result = Unset
    /\ out = <<>>
    /\ calls = <<>>
    /\ first = <<Unset, Unset, FALSE>>

\* AllValidator() or AnyValidator(): validators is the default list object.
Construct(k) ==
    /\ Len(objs) < MaxObjects
    /\ objs' = Append(objs, [k |-> k, validators |-> DefaultOf(k)])
    /\ owned' = Append(owned, <<>>)
    /\ UNCHANGED <<heap, tree, built, value, result, out, calls, first, manager>>

\* AllValidator([]) or AnyValidator([]): validators is a new list object.
ConstructWith(k) ==
    /\ Len(objs) < MaxObjects
    /\ heap' = Append(heap, <<>>)
    /\ objs' = Append(objs, [k |-> k, validators |-> Len(heap) + 1])
    /\ owned' = Append(owned, <<>>)
    /\ UNCHANGED <<tree, built, value, result, out, calls, first, manager>>

\* objs[i].validators.append(c)
AppendChild(i, c) ==
    /\ Len(heap[objs[i].validators]) < MaxValidators
    /\ heap' = [heap EXCEPT ![objs[i].validators] = Append(@, c)]
    /\ owned' = [owned EXCEPT ![i] = Append(@, c)]
    /\ UNCHANGED <<objs, tree, built, value, result, out, calls, first, manager>>

\* result = objs[i].validate(v)
ValidateObject(i, v) ==
    LET r == validate(Object(i), v, 0, Root(NewCall(Object(i), v)))
    IN  /\ tree' = Object(i)
        /\ built' = tree'
        /\ value' = v
        /\ result' = r.res
        /\ out' = r.out
        /\ calls' = r.calls
        /\ UNCHANGED <<first, objects, manager>>

NextObjects ==
    \/ \E k \in {"AllValidator", "AnyValidator"} : Construct(k)
    \/ \E k \in {"AllValidator", "AnyValidator"} : ConstructWith(k)
    \/ \E i \in 1..Len(objs) : \E c \in Appended : AppendChild(i, c)
    \/ \E i \in 1..Len(objs) : \E v \in ObjectInputs : ValidateObject(i, v)

SpecObjects == InitObjects /\ [][NextObjects]_vars

(***************************************************************************)
(* The ServiceManager of servicemngr/servicemngr.py and a client that      *)
(* loads a configuration into it and calls repeat().  The module does not  *)
(* compile (line 46 lacks its colon); the methods are modelled as written, *)
(* as they run once that line is completed.  Neither the script nor the    *)
(* constructor gets as far as a manager: the client that reaches the       *)
(* methods makes its object with __new__.  A command line is a sequence of *)
(* characters.                                                             *)
(***************************************************************************)
MaxServices == 3

\* str.split(' ')
RECURSIVE split(_)
split(s) ==
    IF \A i \in 1..Len(s) : s[i] # " "
    THEN <<s>>
    ELSE LET i == CHOOSE i \in 1..Len(s) :
                      s[i] = " " /\ \A j \in 1..(i - 1) : s[j] # " "
         IN  <<SubSeq(s, 1, i - 1)>> \o split(SubSeq(s, i + 1, Len(s)))

\* for arg in service['args']: self.args[idx].extend(arg.split(' '))
RECURSIVE extend(_, _, _)
extend(words, serviceArgs, i) ==
    IF i > Len(serviceArgs) THEN words
    ELSE extend(words \o split(serviceArgs[i]), serviceArgs, i + 1)

\* The services a configuration may hold: 'exec' and 'args' as the checks
\* of loadConfigFromDict require them.
Execs == {<<"a">>, <<"a", " ", "b">>}

ArgLists == {<<>>, << <<"b", " ", "a">> >>}

Configs == SeqsUpTo([exec : Execs, args : ArgLists], MaxServices)

InitManager ==
    /\ config \in Configs
    /\ services = <<>>
    /\ startExceptions = <<>>
    /\ args = <<>>
    /\ pc = "start"
    /\ lastPass = <<>>
    /\ NoObjects
    /\ tree = PassValidator
    /\ built = tree
    /\ value = Unset
    /\ result = Unset
    /\ out = <<>>
    /\ calls = <<>>
    /\ first = <<Unset, Unset, FALSE>>

SOURCE_PATH == 0

SOURCE_TEXT == 1

SOURCE_DICT == 2

\* python servicemngr.py: the first statement of the __main__ block reads
\* parser, a name that nothing binds.
Main ==
    /\ pc = "start"
    /\ pc' = "NameError: name 'parser' is not defined"
    /\ UNCHANGED <<config, services, startExceptions, args, lastPass, objects,
                   tree, built, value, result, out, calls, first>>

\* ServiceManager(config, tp, logger): __init__ stores timing and logger and
\* then reads the bare name SOURCE_PATH, which is an attribute of the class
\* and no global: NameError whatever tp is, before anything is loaded, and
\* the client gets no object.
ServiceManager_init(tp) ==
    /\ pc = "start"
    /\ pc' = "NameError: name 'SOURCE_PATH' is not defined"
    /\ UNCHANGED <<config, services, startExceptions, args, lastPass, objects,
                   tree, built, value, result, out, calls, first>>

\* ServiceManager.__new__(ServiceManager): an object of the class on which
\* __init__ has not run.
New ==
    /\ pc = "start"
    /\ pc' = "new"
    /\ UNCHANGED <<config, services, startExceptions, args, lastPass, objects,
                   tree, built, value, result, out, calls, first>>

\* loadConfigFromDict(data), after the checks: the attributes it sets.
LoadConfigFromDict ==
    /\ pc = "new"
    /\ services' = [idx \in 1..Len(config) |-> None]
    /\ startExceptions' = [idx \in 1..Len(config) |-> FALSE]
    /\ args' = [idx \in 1..Len(config) |->
                   extend(split(config[idx].exec), config[idx].args, 1)]
    /\ pc' = "loaded"
    /\ UNCHANGED <<config, lastPass, objects,
                   tree, built, value, result, out, calls, first>>

\* checkService(): the exception that ends it, if any, and the services it
\* called Popen for.  Its for statement begins by evaluating
\* data['services'], and data is a name bound neither in the method nor in
\* the module: the call raises NameError before it has looked at a service.
checkService ==
    [raised |-> "NameError: name 'data' is not defined", started |-> {}]

\* repeat(): while True: self.checkService(); sleep(...).  An exception of
\* checkService leaves the loop and the call.
Repeat ==
    /\ pc \in {"new", "loaded"}
    /\ lastPass' = [services |-> services,
                    startExceptions |-> startExceptions,
                    started |-> checkService.started]
    /\ pc' = checkService.raised
    /\ UNCHANGED <<config, services, startExceptions, args, objects,
                   tree, built, value, result, out, calls, first>>

NextManager ==
    \/ Main
    \/ \E tp \in {SOURCE_PATH, SOURCE_TEXT, SOURCE_DICT} : ServiceManager_init(tp)
    \/ New
    \/ LoadConfigFromDict
    \/ Repeat

SpecManager == InitManager /\ [][NextManager]_vars

(***************************************************************************)
(* Reading an outcome off a result.  The code has one representation:     *)
(* None is Failed, any other returned value x is Matched(x).               *)
(***************************************************************************)
Called == value # Unset

\* The number the latest call took.
Latest ==
    IF \E n \in CallNumbers : validate(tree, value, 0, Root(n)).res = result
    THEN CHOOSE n \in CallNumbers : validate(tree, value, 0, Root(n)).res = result
    ELSE 0

Failed(r) == r = None

Matched(r) == ~IsRaised(r) /\ r # None

\* What the root's i-th child validator makes of the root's own input.
Sub(i) ==
    validate(tree.validators[i], value, 1, Child(Root(Latest), i)).res

Subs == 1..Len(tree.validators)

SubsReturn == \A i \in Subs : ~IsRaised(Sub(i))

SubsMatched == {i \in Subs : Matched(Sub(i))}

(***************************************************************************)
(* C1..C5                                                                  *)
(***************************************************************************)
FourEntries == PyDict(SubSeq(ExampleConfig.items, 1, 4))

\* C1: the name/exec/args/dir schema with removeIfNone set, applied to the
\* example configuration with the extra key "bogus", returns the mapping of
\* the four schema entries and raises nothing.
C1_SchemaKeepsFour ==
    (tree = Schema /\ value = ExampleConfig) => result = FourEntries

\* C2: an AnyValidator with children returns the payload of its one matching
\* child when exactly one child matches, and Failed when none does.
C2_AnyReturnsWinner ==
    (Called /\ tree.k = "AnyValidator" /\ tree.validators # <<>> /\ SubsReturn)
        => /\ \A i \in Subs : SubsMatched = {i} => result = Sub(i)
           /\ SubsMatched = {} => Failed(result)

\* C3: without shortCircuit, an AnyValidator of which two or more children
\* match the input raises the exception of args.py:170 wherever the matching
\* children stand in the list; it returns nothing.  (All children return
\* here; otherwise a child's own exception may leave the call first, and
\* the call raises all the same.)
C3_AmbiguousRaises ==
    (Called /\ tree.k = "AnyValidator" /\ ~tree.shortCircuit
            /\ Cardinality(SubsMatched) >= 2)
        => /\ IsRaised(result)
           /\ SubsReturn => result = Raised("Exception")

\* The first and the last of three children match, the middle one fails.
C3_Witness ==
    /\ tree.k = "AnyValidator" /\ ~tree.shortCircuit /\ SubsReturn
    /\ Len(tree.validators) = 3
    /\ SubsMatched = {1, 3}
    /\ result = Raised("Exception")

\* C4: a ReplaceValidator never fails: it returns what the wrapped validator
\* returned when that matched, and Matched(replacement) otherwise, whatever
\* the replacement, None included.
C4_ReplaceNeverFails ==
    (Called /\ tree.k = "ReplaceValidator" /\ SubsReturn)
        => /\ Matched(result)
           /\ Matched(Sub(1)) => result = Sub(1)
           /\ Failed(Sub(1)) => result = tree.replacement

\* C5: PassValidator returns Matched(v) for every v, None included, and its
\* consumers see a match: AllValidator([Pass]) matches, and
\* ReplaceValidator(Pass, d) returns v and not d.
C5_PassAlwaysMatches ==
    Called =>
        /\ tree = PassValidator => (result = value /\ Matched(result))
        /\ (tree.k = "AllValidator" /\ tree.validators = <<PassValidator>>)
               => Matched(result)
        /\ (tree.k = "ReplaceValidator" /\ tree.validators = <<PassValidator>>)
               => result = value

(***************************************************************************)
(* C6..C10                                                                 *)
(***************************************************************************)
\* C6: an AllValidator returns Matched(v), v unchanged, exactly when it has
\* children and each matches v, or has none and allowEmpty is set; otherwise
\* it returns Failed; shortCircuit does not change the result.
C6_AllMatchesIffEveryChild ==
    (Called /\ tree.k = "AllValidator" /\ SubsReturn)
        => LET ok == IF tree.validators = <<>> THEN tree.allowEmpty
                     ELSE SubsMatched = Subs
           IN  /\ ok => (result = value /\ Matched(result))
               /\ ~ok => Failed(result)
               /\ result = validate([tree EXCEPT !.shortCircuit = ~@], value, 0,
                                    Root(Latest)).res

\* What the wrapped validator of a ListValidator makes of the i-th element.
ElemRes(i) ==
    validate(tree.validators[1], Iter(value)[i], 1, Child(Root(Latest), i)).res

ElemResults == [i \in 1..Len(Iter(value)) |-> ElemRes(i)]

ElemsReturn == \A i \in 1..Len(Iter(value)) : ~IsRaised(ElemRes(i))

\* C7: a ListValidator with removeIfNone, given a sequence, returns the list
\* of the payloads of the elements its validator matched, in input order,
\* the failed ones dropped; it is the empty list when all fail, never
\* Failed.  (When the validator raises on an element so does the call.)
C7_ListKeepsMatched ==
    (Called /\ tree.k = "ListValidator" /\ tree.removeIfNone /\ Iterable(value))
        => /\ ~Failed(result)
           /\ ElemsReturn => result = PyList(SelectSeq(ElemResults, Matched))
           /\ ~ElemsReturn => IsRaised(result)

\* Some elements are kept and some dropped, and one kept comes after one
\* dropped.
C7_Witness ==
    /\ tree = ListValidator(TypeValidator("int"), TRUE)
    /\ value = ExampleList
    /\ result = PyList(<<PyInt("1"), PyInt("3")>>)

\* What the i-th child of a TupleValidator makes of the i-th position.
PosResults ==
    [i \in Subs |->
        validate(tree.validators[i], value.items[i], 1,
                 Child(Root(Latest), i)).res]

\* C8: a TupleValidator with matchLength and n > 0 children returns Failed
\* for an input that is no tuple or a tuple of another arity, and for an
\* n-tuple the n-tuple of its children's outcomes by position, a failed
\* position included.  (When a child raises so does the call.)
C8_TupleByPosition ==
    (Called /\ tree.k = "TupleValidator" /\ tree.matchLength
            /\ tree.validators # <<>>)
        => IF value.tp # "tuple" \/ Len(value.items) # Len(tree.validators)
           THEN Failed(result)
           ELSE IF \A i \in Subs : ~IsRaised(PosResults[i])
                THEN result = PyTuple(PosResults) /\ Matched(result)
                ELSE IsRaised(result)

\* A tuple of the right arity of which one position fails and one matches.
C8_Witness ==
    /\ tree.k = "TupleValidator" /\ tree.matchLength
    /\ value.tp = "tuple" /\ Len(value.items) = 2 /\ Len(tree.validators) = 2
    /\ result.tp = "tuple"
    /\ Failed(result.items[1]) /\ Matched(result.items[2])

\* C9: a ListValidator without removeIfNone, given a sequence of n elements,
\* returns the n outcomes of its validator on the elements, in order and
\* unfiltered, and calls the validator once per element.
C9_ListKeepsAllOutcomes ==
    (Called /\ tree.k = "ListValidator" /\ ~tree.removeIfNone
            /\ value.tp \in {"list", "tuple", "str"} /\ ElemsReturn)
        => /\ result = PyList(ElemResults)
           /\ Cardinality({j \in 1..Len(calls) : calls[j].level = 1})
                  = Len(Iter(value))

\* C10: no validate() call changes the tree (its children and parameters
\* stay as the client configured them), and a call with the input of the
\* first call returns what the first call returned, whatever was validated
\* in between.
C10_Stateless ==
    /\ tree = built
    /\ value = first[1] => result = first[2]

(***************************************************************************)
(* C11..C14                                                                *)
(***************************************************************************)
\* The children of the root that the call evaluated: the calls one level
\* below the root are made in list order, one per child reached.
Evaluated == 1..Cardinality({j \in 1..Len(calls) : calls[j].level = 1})

FirstMatch == CHOOSE i \in SubsMatched : \A j \in SubsMatched : i <= j

\* C11: with shortCircuit set, an AnyValidator evaluates its children in list
\* order up to and including the first one that matches and none after it
\* (all of them when none matches).
C11_StopsAtFirstMatch ==
    (Called /\ tree.k = "AnyValidator" /\ tree.shortCircuit /\ SubsReturn)
        => Evaluated = IF SubsMatched = {} THEN Subs ELSE 1..FirstMatch

\* How many of the call's validate() calls were made at this depth, on this
\* value and validator, and how many trace lines carry that validator and
\* value behind two spaces per level of depth.
CallsLike(c) == Cardinality({j \in 1..Len(calls) : calls[j] = c})

LinesFor(c) ==
    Cardinality({j \in 1..Len(out) :
                    /\ out[j].indent = 2 * c.level
                    /\ out[j].value = c.value
                    /\ out[j].name = c.name})

CallsAt(d) == Cardinality({j \in 1..Len(calls) : calls[j].level = d})

LinesAt(d) == Cardinality({j \in 1..Len(out) : out[j].indent = 2 * d})

Depths == {calls[j].level : j \in 1..Len(calls)}

\* The level a call starts at changes what it prints and not what it returns.
SameAtAnyDepth ==
    \A d \in {1, 2} : validate(tree, value, d, Root(Latest)).res = result

\* C12: with tracing on, every validate() call that the evaluation makes
\* prints exactly one line, indented by two spaces per level of depth (root
\* 0, a child one more than its parent), and the depth does not change the
\* result.
C12_OneLinePerStep ==
    (Called /\ tree.info)
        => /\ Len(out) = Len(calls)
           /\ \A j \in 1..Len(calls) : LinesFor(calls[j]) = CallsLike(calls[j])
           /\ SameAtAnyDepth

\* C12, amended: with tracing on, every validate() call that returns prints
\* exactly one line, indented by two spaces per level of depth, the root's
\* line last and carrying the result; a call that raises prints none, so
\* after an exception one line is missing at each depth from the root down
\* to the validator that raised; the depth does not change the result.
C12_OneLinePerReturn ==
    (Called /\ tree.info)
        => /\ SameAtAnyDepth
           /\ \A j \in 1..Len(out) :
                  \E i \in 1..Len(calls) :
                      /\ out[j].indent = 2 * calls[i].level
                      /\ out[j].value = calls[i].value
                      /\ out[j].name = calls[i].name
           /\ IF ~IsRaised(result)
              THEN /\ Len(out) = Len(calls)
                   /\ \A j \in 1..Len(calls) :
                          LinesFor(calls[j]) = CallsLike(calls[j])
                   /\ out[Len(out)] = Line(0, result, value, tree.k)
              ELSE /\ \A j \in 1..Len(calls) :
                          LinesFor(calls[j]) <= CallsLike(calls[j])
                   /\ \E r \in Depths :
                          \A d \in Depths :
                              LinesAt(d) + (IF d <= r THEN 1 ELSE 0) = CallsAt(d)

\* Two of three children match: each child has returned and printed its
\* line, the AnyValidator raises and prints none.
C12_Witness ==
    /\ tree.k = "AnyValidator" /\ tree.info
    /\ result = Raised("Exception")
    /\ Len(calls) = 4
    /\ Len(out) = 3
    /\ \A j \in 1..3 : out[j].indent = 2

\* The validator that objs[i] would be with a list of its own.
Own(i) ==
    IF objs[i].k = "AllValidator"
    THEN AllValidator(owned[i], FALSE, FALSE)
    ELSE AnyValidator(owned[i], FALSE, FALSE)

\* C13: every AllValidator and every AnyValidator has a validators list of
\* its own: no two objects refer to one list, so an object's list holds the
\* children appended through that object and no others, and appending to
\* another object changes no result of its validate().
C13_OwnCollection ==
    /\ \A i, j \in 1..Len(objs) :
           i # j => objs[i].validators # objs[j].validators
    /\ \A i \in 1..Len(objs) :
           /\ heap[objs[i].validators] = owned[i]
           /\ \A v \in ObjectInputs :
                  validate(Object(i), v, 0, Root(0)).res
                      = validate(Own(i), v, 0, Root(0)).res

\* The services that were down when the latest checkService() began: no
\* process yet, or a process that has exited.
Down(p) == p = None \/ p.tp = "exited"

\* C14: a pass of checkService tries to start exactly the services that have
\* no start exception recorded and are down (no process yet, or a process
\* that has exited); it tries neither a service whose start has raised
\* before nor a running one.
C14_StartsWhatIsDown ==
    lastPass # <<>>
        => lastPass.started =
               {idx \in 1..Len(lastPass.services) :
                    /\ ~lastPass.startExceptions[idx]
                    /\ Down(lastPass.services[idx])}

====
